---- MODULE Spec2Model ----
(***************************************************************************)
(* Referral Balance API (backend/main.py): the IP whitelist middleware,    *)
(* the client-address resolution, the CIDR matcher, the pooled database    *)
(* handler and the health endpoint, as a state machine.                    *)
(*                                                                         *)
(* Python strings are TLA+ strings.  An Optional[str] is None or Some(s).   *)
(***************************************************************************)
EXTENDS Integers, Sequences, FiniteSets, TLC

None == <<>>
Some(s) == <<s>>

(***************************************************************************)
(* str helpers: the str methods the program calls.                         *)
(***************************************************************************)
Char(s, i) == SubSeq(s, i, i)

\* The characters str.strip() removes: those for which str.isspace() is true.
\* In order: space, TAB, LF, CR, FF; then VT (U+000B), FS, GS, RS, US
\* (U+001C..U+001F), NEL (U+0085), NBSP (U+00A0) and U+1680, written as the
\* characters themselves.  This covers every whitespace character of Latin-1,
\* the range a header value is decoded in.  The remaining Unicode spaces
\* (U+2000..U+200A, U+2028, U+2029, U+202F, U+205F, U+3000) cannot be written
\* in a string of this language and are not members.
Whitespace ==
    {" ", "\t", "\n", "\r", "\f",
     "", "", "", "", "", "", " ", " "}

RECURSIVE LStrip(_)
LStrip(s) ==
    IF s # "" /\ Char(s, 1) \in Whitespace THEN LStrip(SubSeq(s, 2, Len(s))) ELSE s

RECURSIVE RStrip(_)
RStrip(s) ==
    IF s # "" /\ Char(s, Len(s)) \in Whitespace
    THEN RStrip(SubSeq(s, 1, Len(s) - 1)) ELSE s

\* str.strip()
Strip(s) == RStrip(LStrip(s))

\* sep in s, for a one-character sep
Contains(s, sep) == \E i \in 1..Len(s) : Char(s, i) = sep

\* Index of the first sep in s (0 when there is none).
FirstIndex(s, sep) ==
    IF Contains(s, sep)
    THEN CHOOSE i \in 1..Len(s) :
            /\ Char(s, i) = sep
            /\ \A j \in 1..(i - 1) : Char(s, j) # sep
    ELSE 0

\* s.split(sep): the list of the pieces between the separators ("" -> [""]).
RECURSIVE Split(_, _)
Split(s, sep) ==
    LET i == FirstIndex(s, sep) IN
    IF i = 0 THEN <<s>>
    ELSE <<SubSeq(s, 1, i - 1)>> \o Split(SubSeq(s, i + 1, Len(s)), sep)

\* bool(x) of an Optional[str]: None and "" are falsy.
Truthy(x) == x # None /\ x[1] # ""

(***************************************************************************)
(* The ipaddress module, as _is_ip_allowed uses it: ip_address(str) and    *)
(* ip_network(str, strict=False).  An address is its version and its       *)
(* groups (4 octets, or 8 hextets); a failed parse is the ValueError the   *)
(* call raises.                                                            *)
(***************************************************************************)
ParseFail == [ok |-> FALSE, version |-> 0, groups |-> <<>>, prefixlen |-> 0]

DecDigits == "0123456789"
HexDigits == "0123456789abcdef"
HexUpper  == "0123456789ABCDEF"

IsDigit(c) == Contains(DecDigits, c)
IsHexDigit(c) == Contains(HexDigits, c) \/ Contains(HexUpper, c)
DigitVal(c) ==
    IF Contains(HexDigits, c) THEN FirstIndex(HexDigits, c) - 1
    ELSE FirstIndex(HexUpper, c) - 1

AllDigits(s) == \A i \in 1..Len(s) : IsDigit(Char(s, i))
AllHexDigits(s) == \A i \in 1..Len(s) : IsHexDigit(Char(s, i))

\* int(s, base) of a string of digits
RECURSIVE IntOf(_, _)
IntOf(s, base) ==
    IF s = "" THEN 0
    ELSE IntOf(SubSeq(s, 1, Len(s) - 1), base) * base + DigitVal(Char(s, Len(s)))

\* '%x' % n
RECURSIVE HexStr(_)
HexStr(n) ==
    IF n < 16 THEN Char(HexDigits, n + 1)
    ELSE HexStr(n \div 16) \o Char(HexDigits, (n % 16) + 1)

RECURSIVE Pow2(_)
Pow2(k) == IF k = 0 THEN 1 ELSE 2 * Pow2(k - 1)

\* IPv4Address._parse_octet: 1 to 3 ASCII digits, no leading zero, <= 255.
OctetOk(s) ==
    /\ s # ""
    /\ AllDigits(s)
    /\ Len(s) <= 3
    /\ ~(s # "0" /\ Char(s, 1) = "0")
    /\ IntOf(s, 10) <= 255

\* IPv4Address(s)
IPv4Address(s) ==
    LET octets == Split(s, ".") IN
    IF \/ Contains(s, "/")
       \/ s = ""
       \/ Len(octets) # 4
       \/ \E i \in 1..Len(octets) : ~OctetOk(octets[i])
    THEN ParseFail
    ELSE [ok |-> TRUE, version |-> 4,
          groups |-> [i \in 1..4 |-> IntOf(octets[i], 10)], prefixlen |-> 32]

\* IPv6Address._parse_hextet: 1 to 4 hexadecimal digits.
HextetOk(s) == s # "" /\ AllHexDigits(s) /\ Len(s) <= 4

\* The hextets as numbers, or the failure of _parse_hextet on one of them.
IPv6FromHextets(hextets) ==
    IF \E i \in 1..8 : ~HextetOk(hextets[i]) THEN ParseFail
    ELSE [ok |-> TRUE, version |-> 6,
          groups |-> [i \in 1..8 |-> IntOf(hextets[i], 16)], prefixlen |-> 128]

\* The eight hextets of an address with a '::': hi parts before it, lo parts
\* after it, zeros between.
IPv6Expand(parts, n, hi, lo) ==
    IF 8 - (hi + lo) < 1 THEN ParseFail
    ELSE IPv6FromHextets([i \in 1..8 |->
            IF i <= hi THEN parts[i]
            ELSE IF i > 8 - lo THEN parts[n - (8 - i)]
            ELSE "0"])

\* An address whose '::' is at parts[skip]: a leading or trailing empty part
\* must belong to the '::'.
IPv6Skip(parts, n, skip) ==
    IF parts[1] = "" /\ skip - 2 # 0 THEN ParseFail
    ELSE IF parts[n] = "" /\ n - skip - 1 # 0 THEN ParseFail
    ELSE IPv6Expand(parts, n,
                    IF parts[1] = "" THEN skip - 2 ELSE skip - 1,
                    IF parts[n] = "" THEN n - skip - 1 ELSE n - skip)

\* The parts between the colons, once any IPv4-style suffix is two hextets:
\* at most 9 parts, at most one '::', and 8 parts when there is none.
IPv6Layout(parts, n, skips) ==
    IF n > 9 \/ Cardinality(skips) > 1 THEN ParseFail
    ELSE IF skips # {} THEN IPv6Skip(parts, n, CHOOSE i \in skips : TRUE)
    ELSE IF n # 8 \/ parts[1] = "" \/ parts[n] = "" THEN ParseFail
    ELSE IPv6FromHextets(parts)

IPv6FromParts(parts) ==
    IPv6Layout(parts, Len(parts), {i \in 2..(Len(parts) - 1) : parts[i] = ""})

\* An IPv4-style last part becomes two hextets ('%x').
IPv6Suffix(parts, v4) ==
    IF ~v4.ok THEN ParseFail
    ELSE IPv6FromParts(SubSeq(parts, 1, Len(parts) - 1)
                       \o <<HexStr(v4.groups[1] * 256 + v4.groups[2]),
                            HexStr(v4.groups[3] * 256 + v4.groups[4])>>)

IPv6Split(parts, last) ==
    IF Len(parts) < 3 THEN ParseFail
    ELSE IF Contains(last, ".") THEN IPv6Suffix(parts, IPv4Address(last))
    ELSE IPv6FromParts(parts)

IPv6Parts(parts) == IPv6Split(parts, parts[Len(parts)])

\* IPv6Address._ip_int_from_string, on the text before any '%scope'.
IPv6Groups(s) == IF s = "" THEN ParseFail ELSE IPv6Parts(Split(s, ":"))

\* IPv6Address(s): '/' is refused, a '%scope' suffix is split off and must be
\* non-empty without a further '%'.
IPv6Scoped(s, p) ==
    IF p = 0 THEN IPv6Groups(s)
    ELSE IF p = Len(s) \/ Contains(SubSeq(s, p + 1, Len(s)), "%") THEN ParseFail
    ELSE IPv6Groups(SubSeq(s, 1, p - 1))

IPv6Address(s) ==
    IF Contains(s, "/") THEN ParseFail ELSE IPv6Scoped(s, FirstIndex(s, "%"))

\* The first parse if it succeeded, else the second.
FirstOk(a, b) == IF a.ok THEN a ELSE b

\* ipaddress.ip_address(s): IPv4 first, then IPv6, else ValueError.
ip_address(s) == FirstOk(IPv4Address(s), IPv6Address(s))

RECURSIVE LStripZeros(_)
LStripZeros(s) ==
    IF Len(s) > 1 /\ Char(s, 1) = "0" THEN LStripZeros(SubSeq(s, 2, Len(s))) ELSE s

\* _prefix_from_prefix_string: ASCII digits only, int(s) in 0..max.
\* -1 stands for the NetmaskValueError.
PrefixInRange(z, max) ==
    IF Len(z) <= 3 /\ IntOf(z, 10) <= max THEN IntOf(z, 10) ELSE -1

PrefixFromPrefixString(s, max) ==
    IF s # "" /\ AllDigits(s) THEN PrefixInRange(LStripZeros(s), max)
    ELSE -1

\* The bits of an IPv4 address, most significant first.
Bits32(groups) ==
    [b \in 1..32 |-> (groups[((b - 1) \div 8) + 1] \div Pow2(7 - ((b - 1) % 8))) % 2]

\* _prefix_from_ip_int: the mask must be ones followed by zeros.  -1: ValueError.
PrefixFromBits(bits) ==
    IF \E k \in 0..32 : \A b \in 1..32 : bits[b] = (IF b <= k THEN 1 ELSE 0)
    THEN CHOOSE k \in 0..32 : \A b \in 1..32 : bits[b] = (IF b <= k THEN 1 ELSE 0)
    ELSE -1

\* The first prefix length if it is one, else the second.
FirstPrefix(p, q) == IF p # -1 THEN p ELSE q

PrefixFromMaskBits(bits) ==
    FirstPrefix(PrefixFromBits(bits), PrefixFromBits([b \in 1..32 |-> 1 - bits[b]]))

PrefixFromMask(a) == IF ~a.ok THEN -1 ELSE PrefixFromMaskBits(Bits32(a.groups))

\* _prefix_from_ip_string: a dotted netmask (255.255.0.0) or hostmask (0.0.255.255).
PrefixFromIpString(s) == PrefixFromMask(IPv4Address(s))

\* address & netmask, group by group (width w bits per group).
KeptBits(k, w) == IF k < 0 THEN 0 ELSE IF k > w THEN w ELSE k
MaskGroup(g, drop) == (g \div Pow2(drop)) * Pow2(drop)
MaskGroups(groups, prefixlen, w) ==
    [i \in 1..Len(groups) |->
        MaskGroup(groups[i], w - KeptBits(prefixlen - (i - 1) * w, w))]

\* The network of an address and a prefix length (strict=False: host bits are
\* masked off), or the failure of either.
MakeNetwork(a, p, w) ==
    IF ~a.ok \/ p = -1 THEN ParseFail
    ELSE [ok |-> TRUE, version |-> a.version,
          groups |-> MaskGroups(a.groups, p, w), prefixlen |-> p]

\* IPv4Network(s, strict=False): at most one '/', the address, then the mask as
\* a prefix length or, failing that, as a dotted netmask or hostmask.
IPv4NetworkOf(parts) ==
    IF Len(parts) > 2 THEN ParseFail
    ELSE IF Len(parts) = 1 THEN MakeNetwork(IPv4Address(parts[1]), 32, 8)
    ELSE MakeNetwork(IPv4Address(parts[1]),
                     FirstPrefix(PrefixFromPrefixString(parts[2], 32),
                                 PrefixFromIpString(parts[2])), 8)

IPv4Network(s) == IPv4NetworkOf(Split(s, "/"))

\* IPv6Network(s, strict=False): the mask is a prefix length only.
IPv6NetworkOf(parts) ==
    IF Len(parts) > 2 THEN ParseFail
    ELSE IF Len(parts) = 1 THEN MakeNetwork(IPv6Address(parts[1]), 128, 16)
    ELSE MakeNetwork(IPv6Address(parts[1]),
                     PrefixFromPrefixString(parts[2], 128), 16)

IPv6Network(s) == IPv6NetworkOf(Split(s, "/"))

\* ipaddress.ip_network(s, strict=False): IPv4 first, then IPv6, else ValueError.
ip_network(s) == FirstOk(IPv4Network(s), IPv6Network(s))

\* address in network (_BaseNetwork.__contains__): never across versions.
InNetwork(addr, network) ==
    /\ addr.version = network.version
    /\ MaskGroups(addr.groups, network.prefixlen,
                  IF network.version = 4 THEN 8 ELSE 16) = network.groups

\* Lines 77-78: the rule as a network, the candidate as an address, and the
\* membership test; ValueError when either parse raises.
CidrMatch(network, address) ==
    IF ~network.ok \/ ~address.ok THEN "ValueError"
    ELSE IF InNetwork(address, network) THEN "match"
    ELSE "no match"

(***************************************************************************)
(* Configuration and IPWhitelistMiddleware.                                *)
(***************************************************************************)

\* allowed_ips, from the ALLOWED_IPS environment value (None: unset, which
\* os.getenv defaults to ""): split on ",", strip, drop the empty entries.
ParseAllowedIps(env) ==
    LET allowed_ips_str == IF env = None THEN "" ELSE env[1]
        pieces == Split(allowed_ips_str, ",")
        kept   == SelectSeq(pieces, LAMBDA ip : Strip(ip) # "")
    IN  IF allowed_ips_str # ""
        THEN [i \in 1..Len(kept) |-> Strip(kept[i])]
        ELSE <<>>

LocalhostEntries == <<"127.0.0.1", "::1", "localhost">>

\* IPWhitelistMiddleware.__init__: self.allowed_ips is the configured list
\* extended by the localhost entries.
MiddlewareInit(allowed_ips) == allowed_ips \o LocalhostEntries

\* x in list
InList(x, list) == \E i \in 1..Len(list) : list[i] = x

\* The exceptions the matcher's except clause catches.  ip_network and
\* ip_address raise ValueError; AddressValueError is a subclass of it.
ExceptClauseNarrow == {"AddressValueError"}
ExceptClause == {"ValueError", "AddressValueError"}

\* The for loop of _is_ip_allowed from rule i on (ScanRules).  The result is
\* the returned boolean, or an exception that no except clause caught.
\* One turn of the loop, lines 74-85: "match" (return True), "no match", or
\* the exception raised inside the try.
TryRule(ip, allowed) ==
    IF Contains(allowed, "/") THEN CidrMatch(ip_network(allowed), ip_address(ip))
    ELSE IF ip = allowed THEN "match"
    ELSE "no match"

RECURSIVE ScanRules(_, _, _)
ScanFrom(ip, allowed_ips, i, turn) ==
    IF turn = "match" THEN [raised |-> FALSE, value |-> TRUE]
    ELSE IF turn = "no match" \/ turn \in ExceptClause
    THEN ScanRules(ip, allowed_ips, i + 1)
    ELSE [raised |-> TRUE, value |-> FALSE]

ScanRules(ip, allowed_ips, i) ==
    IF i > Len(allowed_ips) THEN [raised |-> FALSE, value |-> FALSE]
    ELSE ScanFrom(ip, allowed_ips, i, TryRule(ip, allowed_ips[i]))

\* IPWhitelistMiddleware._is_ip_allowed(ip)
is_ip_allowed(ip, allowed_ips) ==
    IF InList(ip, allowed_ips) THEN [raised |-> FALSE, value |-> TRUE]
    ELSE ScanRules(ip, allowed_ips, 1)

\* dispatch, lines 39-49: the client address, overridden by the first entry
\* of X-Forwarded-For, overridden by X-Real-IP.  client is request.client's
\* host or None; a header is its value or None when the request has none.
ResolveSwapped(client, forwarded_for, real_ip) ==
    LET ip0 == client
        ip1 == IF Truthy(real_ip) THEN Some(Strip(real_ip[1])) ELSE ip0
        ip2 == IF Truthy(forwarded_for)
               THEN Some(Strip(Split(forwarded_for[1], ",")[1])) ELSE ip1
    IN  ip2
ResolveNotNone(client, forwarded_for, real_ip) ==
    LET ip0 == client
        ip1 == IF forwarded_for # None
               THEN Some(Strip(Split(forwarded_for[1], ",")[1])) ELSE ip0
        ip2 == IF real_ip # None THEN Some(Strip(real_ip[1])) ELSE ip1
    IN  ip2
ResolveClientIp(client, forwarded_for, real_ip) ==
    LET ip0 == client
        ip1 == IF Truthy(forwarded_for)
               THEN Some(Strip(Split(forwarded_for[1], ",")[1])) ELSE ip0
        ip2 == IF Truthy(real_ip) THEN Some(Strip(real_ip[1])) ELSE ip1
    IN  ip2

\* dispatch, line 53: the rules that are not localhost entries.
AllIps(allowed_ips) == allowed_ips
non_localhost_ips(allowed_ips) ==
    SelectSeq(allowed_ips, LAMBDA ip : ~InList(ip, LocalhostEntries))

\* The list _is_ip_allowed scans: self.allowed_ips, localhost entries included.
MatchedAgainstNonLocalhost(allowed_ips) == non_localhost_ips(allowed_ips)
MatchedAgainst(allowed_ips) == allowed_ips

\* self.allowed_ips after a dispatch: line 53 builds a new list, lines 69 and
\* 73 only read it.
AllowedIpsFilteredInPlace(allowed_ips) == non_localhost_ips(allowed_ips)
AllowedIpsAfterDispatch(allowed_ips) == allowed_ips

\* No response yet.
NoResponse == [status |-> 0, body |-> [none |-> ""]]

AccessDenied ==
    [status |-> 403,
     body |-> [error |-> "Access denied. Your IP is not whitelisted."]]

\* An exception that leaves the application: Starlette's ServerErrorMiddleware
\* answers 500 "Internal Server Error".
ServerError == [status |-> 500, body |-> [text |-> "Internal Server Error"]]

\* IPWhitelistMiddleware.dispatch up to its return: the resolved address,
\* whether call_next is awaited, and the response when it is not.
CallNext(client_ip) ==
    [client_ip |-> client_ip, call_next |-> TRUE, response |-> NoResponse]
Respond(client_ip, response) ==
    [client_ip |-> client_ip, call_next |-> FALSE, response |-> response]

\* Lines 58-64: an exception of _is_ip_allowed would leave dispatch.
Decide(client_ip, allowed) ==
    IF allowed.raised THEN Respond(client_ip, ServerError)
    ELSE IF allowed.value THEN CallNext(client_ip)
    ELSE Respond(client_ip, AccessDenied)

DispatchResolved(allowed_ips, client_ip) ==
    IF non_localhost_ips(allowed_ips) = <<>> THEN CallNext(client_ip)
    ELSE IF ~Truthy(client_ip) THEN Respond(client_ip, AccessDenied)
    ELSE Decide(client_ip, is_ip_allowed(client_ip[1], MatchedAgainst(allowed_ips)))

dispatch(allowed_ips, client, forwarded_for, real_ip) ==
    DispatchResolved(allowed_ips, ResolveClientIp(client, forwarded_for, real_ip))

(***************************************************************************)
(* The connection pool and the endpoints.                                  *)
(***************************************************************************)

\* ThreadedConnectionPool(1, 20, ...): at most 20 connections.
maxconn == 20

\* str(e) of the failures of the request path, by the step that raises.
\* "build" is float(None) at line 197, a row whose debt is NULL.
FailureMessage(step) ==
    CASE step = "get_pool"  -> "could not connect to server"
      [] step = "exhausted" -> "connection pool exhausted"
      [] step = "getconn"   -> "connection to server failed"
      [] step = "cursor"    -> "connection already closed"
      [] step = "query1"    -> "relation referral does not exist"
      [] step = "query2"    -> "relation client does not exist"
      [] step = "build"     -> "float() argument must be a string or a real number, not 'NoneType'"

\* The steps between getconn and the return that can raise, and "ok".
QueryOutcomes == {"ok", "cursor", "query1", "query2", "build"}

\* get_pool_sync(): the pool, created on first use; a failed creation leaves
\* connection_pool None and is raised again.
get_pool_sync(pool, created) ==
    IF pool # "None" THEN [pool |-> pool, raised |-> FALSE]
    ELSE IF created THEN [pool |-> "open", raised |-> FALSE]
    ELSE [pool |-> "None", raised |-> TRUE]

\* get_referral_balances: the outer try encloses get_pool_sync(), getconn()
\* and the inner block, for every step that can raise.
TryCoversInnerOnly(step) == step \notin {"get_pool", "exhausted", "getconn"}
TryCovers(step) == TRUE

\* get_referral_balances: the finally clause runs pool.putconn(conn) whatever
\* the inner block did.
FinallyOnlyOnSuccess(outcome) == outcome = "ok"
FinallyRuns(outcome) == TRUE

\* get_referral_balances, the except clause.
ErrorResponse(message) == [status |-> 500, body |-> [error |-> message]]

\* get_referral_balances, the successful return (the rows are not modelled).
DataResponse == [status |-> 200, body |-> [data |-> "rows"]]

\* health_check
HealthDegraded == [status |-> 503, body |-> [status |-> "error"]]
health_check == [status |-> 200, body |-> [status |-> "ok"]]

(***************************************************************************)
(* The server: requests in flight, the pool, the application's lifespan.   *)
(***************************************************************************)
VARIABLES
    ALLOWED_IPS,      \* the environment value read at import (None: unset)
    allowed_ips,      \* IPWhitelistMiddleware.allowed_ips
    phase,            \* "import", "serving", "failed", "stopped"
    lifespan,         \* whether the host ran the lifespan's startup
    connection_pool,  \* the global: "None", "open", "closed"
    used,             \* connections checked out of the pool
    req,              \* slot -> the request it carries
    matcher           \* a direct call of _is_ip_allowed: ip, rules, result

vars == <<ALLOWED_IPS, allowed_ips, phase, lifespan, connection_pool, used,
          req, matcher>>

\* Concurrent requests the server carries.
MaxSlots == 2
Slots == 1..MaxSlots

HealthPath == "/health"
ApiPath == "/api/referral-balances"

Idle ==
    [pc |-> "idle", path |-> "", client |-> None, xff |-> None, xri |-> None,
     client_ip |-> None, call_next |-> FALSE, response |-> NoResponse,
     gets |-> 0, puts |-> 0, failure |-> "", pending |-> "",
     escaped |-> FALSE]

\* Environment values of ALLOWED_IPS.
EnvValues ==
    {None, Some(""), Some("127.0.0.1, localhost"), Some("10.0.0.0/8"),
     Some("not-an-ip/33, 10.0.0.0/8,,203.0.113.5"),
     Some("2001:db8::/32,4.4.4.4"), Some("10.0.0.0/8\r,1.1.1.1")}

\* Requests: the transport's peer address, the two headers, the path.
Clients == {None, Some("1.1.1.1"), Some("10.1.2.3"), Some("127.0.0.1")}
ForwardedValues ==
    {None, Some(""), Some(" "), Some("2.2.2.2"), Some("2.2.2.2, 3.3.3.3"),
     Some(", 10.1.2.3"), Some(" 10.1.2.3 ,1.1.1.1")}
\* Two of the X-Real-IP values carry whitespace other than the space: VT
\* before a space, and US (U+001F) before and CR after an address.
RealIpValues ==
    {None, Some(""), Some(" "), Some("4.4.4.4"), Some("10.1.2.3\r"),
     Some("::1"), Some("2001:db8::5")}
Paths == {HealthPath, ApiPath}

AllRequests ==
    [path : Paths, client : Clients, xff : ForwardedValues, xri : RealIpValues]

\* The requests of the concurrent runs.
FewRequests ==
    {[path |-> ApiPath, client |-> Some("10.1.2.3"), xff |-> None, xri |-> None],
     [path |-> ApiPath, client |-> Some("1.1.1.1"), xff |-> None, xri |-> None],
     [path |-> ApiPath, client |-> Some("10.1.2.3"), xff |-> Some(" "),
      xri |-> None],
     [path |-> HealthPath, client |-> Some("1.1.1.1"), xff |-> None,
      xri |-> Some("4.4.4.4")],
     [path |-> HealthPath, client |-> None, xff |-> None, xri |-> None]}

FewEnvValues ==
    {None, Some("10.0.0.0/8"), Some("not-an-ip/33, 10.0.0.0/8,,203.0.113.5")}

NoResult == [raised |-> FALSE, value |-> FALSE]
NoCall == [ip |-> "", rules |-> <<>>, called |-> FALSE, result |-> NoResult]

InitWith(envs) ==
    /\ ALLOWED_IPS \in envs
    /\ allowed_ips = MiddlewareInit(ParseAllowedIps(ALLOWED_IPS))
    /\ phase = "import"
    /\ lifespan = FALSE
    /\ connection_pool = "None"
    /\ used = 0
    /\ req = [r \in Slots |-> Idle]
    /\ matcher = NoCall

\* The event loop runs a handler from its getconn() to its return without a
\* suspension point: nothing else runs meanwhile.
Running(r) == req[r].pc \in {"has_conn", "finally"}
LoopFree == \A r \in Slots : ~Running(r)

\* lifespan startup: get_pool_sync(); a failure aborts the startup.
LifespanStartup ==
    /\ phase = "import"
    /\ \E created \in BOOLEAN :
         LET got == get_pool_sync(connection_pool, created) IN
         /\ connection_pool' = got.pool
         /\ phase' = IF got.raised THEN "failed" ELSE "serving"
    /\ lifespan' = TRUE
    /\ UNCHANGED <<ALLOWED_IPS, allowed_ips, used, req, matcher>>

\* A host that sends no lifespan events serves with connection_pool None.
ServeWithoutLifespan ==
    /\ phase = "import"
    /\ phase' = "serving"
    /\ UNCHANGED <<ALLOWED_IPS, allowed_ips, lifespan, connection_pool, used,
                   req, matcher>>

\* lifespan shutdown, once no request is in flight: closeall().
LifespanShutdown ==
    /\ phase = "serving"
    /\ lifespan
    /\ \A r \in Slots : req[r].pc = "idle"
    /\ phase' = "stopped"
    /\ connection_pool' = IF connection_pool # "None" THEN "closed"
                          ELSE connection_pool
    /\ UNCHANGED <<ALLOWED_IPS, allowed_ips, lifespan, used, req, matcher>>

\* A request arrives and IPWhitelistMiddleware.dispatch runs up to its
\* await call_next(request) or its 403.
Receive(r, request) ==
    /\ phase = "serving"
    /\ LoopFree
    /\ req[r].pc = "idle"
    /\ LET d == dispatch(allowed_ips, request.client, request.xff, request.xri) IN
       /\ req' = [req EXCEPT ![r] =
             [Idle EXCEPT !.pc = IF d.call_next THEN "passed" ELSE "done",
                          !.path = request.path,
                          !.client = request.client,
                          !.xff = request.xff,
                          !.xri = request.xri,
                          !.client_ip = d.client_ip,
                          !.call_next = d.call_next,
                          !.response = d.response]]
       /\ allowed_ips' = AllowedIpsAfterDispatch(allowed_ips)
    /\ UNCHANGED <<ALLOWED_IPS, phase, lifespan, connection_pool, used, matcher>>

\* health_check, for a request the middleware passed on.
ServeHealth(r) ==
    /\ LoopFree
    /\ req[r].pc = "passed"
    /\ req[r].path = HealthPath
    /\ req' = [req EXCEPT ![r].pc = "done", ![r].response = health_check]
    /\ UNCHANGED <<ALLOWED_IPS, allowed_ips, phase, lifespan, connection_pool,
                   used, matcher>>

\* A step of get_referral_balances raised: the except clause answers it when
\* the try encloses the step; otherwise the exception leaves the handler.
Raised(slot, step) ==
    IF TryCovers(step)
    THEN [slot EXCEPT !.pc = "done", !.failure = step, !.pending = "",
                      !.response = ErrorResponse(FailureMessage(step))]
    ELSE [slot EXCEPT !.pc = "done", !.failure = step, !.pending = "",
                      !.escaped = TRUE, !.response = ServerError]

\* get_referral_balances, lines 152-153: get_pool_sync() and pool.getconn().
\* getconn() raises PoolError when maxconn connections are out, and may fail
\* to connect.
HandlerAcquire(r) ==
    /\ LoopFree
    /\ req[r].pc = "passed"
    /\ req[r].path = ApiPath
    /\ \E created \in BOOLEAN, connected \in BOOLEAN :
         LET got == get_pool_sync(connection_pool, created) IN
         /\ connection_pool' = got.pool
         /\ IF got.raised
            THEN /\ req' = [req EXCEPT ![r] = Raised(req[r], "get_pool")]
                 /\ used' = used
            ELSE IF used >= maxconn
            THEN /\ req' = [req EXCEPT ![r] = Raised(req[r], "exhausted")]
                 /\ used' = used
            ELSE IF ~connected
            THEN /\ req' = [req EXCEPT ![r] = Raised(req[r], "getconn")]
                 /\ used' = used
            ELSE /\ req' = [req EXCEPT ![r].pc = "has_conn", ![r].gets = @ + 1]
                 /\ used' = used + 1
    /\ UNCHANGED <<ALLOWED_IPS, allowed_ips, phase, lifespan, matcher>>

\* get_referral_balances, lines 155-203: the cursor, the two queries, the
\* result; any of them may raise.
HandlerQuery(r) ==
    /\ req[r].pc = "has_conn"
    /\ \E outcome \in QueryOutcomes :
         req' = [req EXCEPT ![r].pc = "finally", ![r].pending = outcome]
    /\ UNCHANGED <<ALLOWED_IPS, allowed_ips, phase, lifespan, connection_pool,
                   used, matcher>>

\* get_referral_balances, lines 204-212: finally pool.putconn(conn), then the
\* return of the response or the except clause.
HandlerFinally(r) ==
    /\ req[r].pc = "finally"
    /\ LET outcome == req[r].pending
           put == FinallyRuns(outcome)
           released == [req[r] EXCEPT !.puts = IF put THEN @ + 1 ELSE @]
       IN  /\ used' = IF put THEN used - 1 ELSE used
           /\ req' = [req EXCEPT ![r] =
                 IF outcome = "ok"
                 THEN [released EXCEPT !.pc = "done", !.pending = "",
                                       !.response = DataResponse]
                 ELSE Raised(released, outcome)]
    /\ UNCHANGED <<ALLOWED_IPS, allowed_ips, phase, lifespan, connection_pool,
                   matcher>>

\* The response is sent; the slot is free again.
Complete(r) ==
    /\ LoopFree
    /\ req[r].pc = "done"
    /\ req' = [req EXCEPT ![r] = Idle]
    /\ UNCHANGED <<ALLOWED_IPS, allowed_ips, phase, lifespan, connection_pool,
                   used, matcher>>

NextWith(slots, requests) ==
    \/ LifespanStartup
    \/ ServeWithoutLifespan
    \/ LifespanShutdown
    \/ \E r \in slots, request \in requests : Receive(r, request)
    \/ \E r \in slots : ServeHealth(r)
    \/ \E r \in slots : HandlerAcquire(r)
    \/ \E r \in slots : HandlerQuery(r)
    \/ \E r \in slots : HandlerFinally(r)
    \/ \E r \in slots : Complete(r)

\* Concurrent requests.
Init == InitWith(FewEnvValues)
Next == NextWith(Slots, FewRequests)
Spec == Init /\ [][Next]_vars

\* One request at a time, over every request and every configuration.
InitAccess == InitWith(EnvValues)
NextAccess == NextWith({1}, AllRequests)
SpecAccess == InitAccess /\ [][NextAccess]_vars

(***************************************************************************)
(* _is_ip_allowed called directly, over candidates and rule lists.         *)
(***************************************************************************)
MaxRules == 3

RulePool ==
    {"10.0.0.0/8", "not-an-ip/33", "203.0.113.5", "2001:db8::/32",
     "192.168.1.77/27", "localhost"}

Candidates ==
    {"10.1.2.3", "11.0.0.1", "203.0.113.5", "2001:db8::5", "192.168.1.65",
     "not-an-ip/33", "junk", ""}

RuleLists == UNION {[1..n -> RulePool] : n \in 0..MaxRules}

InitMatcher ==
    /\ ALLOWED_IPS = None
    /\ allowed_ips = MiddlewareInit(ParseAllowedIps(ALLOWED_IPS))
    /\ phase = "import"
    /\ lifespan = FALSE
    /\ connection_pool = "None"
    /\ used = 0
    /\ req = [r \in Slots |-> Idle]
    /\ matcher \in {[ip |-> c, rules |-> l, called |-> FALSE, result |-> NoResult] :
                      c \in Candidates, l \in RuleLists}

Match ==
    /\ ~matcher.called
    /\ matcher' = [matcher EXCEPT !.called = TRUE,
                                  !.result = is_ip_allowed(matcher.ip, matcher.rules)]
    /\ UNCHANGED <<ALLOWED_IPS, allowed_ips, phase, lifespan, connection_pool,
                   used, req>>

NextMatcher == Match
SpecMatcher == InitMatcher /\ [][NextMatcher]_vars

(***************************************************************************)
(* Properties.                                                             *)
(***************************************************************************)
LocalhostRules == {"127.0.0.1", "::1", "localhost"}

\* The allow list holds a rule other than the localhost entries.
Configured == \E i \in 1..Len(allowed_ips) : allowed_ips[i] \notin LocalhostRules

\* Slot r carries a request that dispatch has decided.
Decided(r) == req[r].pc # "idle"

Forbidden ==
    [status |-> 403,
     body |-> [error |-> "Access denied. Your IP is not whitelisted."]]

\* C1: fail-open when unconfigured.  If the allow list holds no rule other
\* than the localhost entries, dispatch passes every request on to call_next,
\* whatever its transport address and headers: no request is answered 403.
C1_FailOpen ==
    ~Configured =>
        \A r \in Slots :
            Decided(r) => req[r].call_next /\ req[r].response.status # 403

\* C1 witness: ALLOWED_IPS lists only localhost entries and a request with no
\* address at all has been passed on.
C1_Witness ==
    /\ ALLOWED_IPS = Some("127.0.0.1, localhost")
    /\ \E r \in Slots :
        /\ req[r].pc = "passed"
        /\ req[r].client = None /\ req[r].xff = None /\ req[r].xri = None
        /\ req[r].client_ip = None

\* C2: under a configured allow list, dispatch calls call_next exactly when
\* the resolved address is present and _is_ip_allowed is true of it against
\* the full list, localhost entries included (so 127.0.0.1 and ::1 pass);
\* every other request is answered 403 with the fixed body and never reaches
\* call_next.
C2_Decision ==
    Configured =>
        \A r \in Slots :
            Decided(r) =>
                LET ip == req[r].client_ip
                    ok == ip # None /\ is_ip_allowed(ip[1], allowed_ips).value
                IN  /\ req[r].call_next = ok
                    /\ ip \in {Some("127.0.0.1"), Some("::1")} => req[r].call_next
                    /\ ~ok => /\ req[r].pc = "done"
                              /\ req[r].response = Forbidden
                              /\ req[r].gets = 0

\* C2 witness: a configured list, and a request from an address in none of
\* its rules has been answered 403.
C2_Witness ==
    /\ ALLOWED_IPS = Some("10.0.0.0/8")
    /\ \E r \in Slots :
        /\ req[r].client_ip = Some("4.4.4.4")
        /\ req[r].pc = "done"
        /\ ~req[r].call_next
        /\ req[r].response = Forbidden

FirstEntry(header) == Strip(Split(header, ",")[1])

\* C3 as stated: the resolved address is the trimmed X-Real-IP whenever that
\* header is present; otherwise the trimmed first entry of X-Forwarded-For
\* whenever that header is present; otherwise the transport address.
C3_Original ==
    \A r \in Slots :
        Decided(r) =>
            req[r].client_ip =
                IF req[r].xri # None THEN Some(Strip(req[r].xri[1]))
                ELSE IF req[r].xff # None THEN Some(FirstEntry(req[r].xff[1]))
                ELSE req[r].client

\* C3 amended: the resolved address is the trimmed X-Real-IP whenever that
\* header is present with a non-empty value; otherwise the trimmed first entry
\* of X-Forwarded-For whenever that header is present with a non-empty value;
\* otherwise the transport address.  In particular transport 1.1.1.1 with
\* X-Forwarded-For "2.2.2.2, 3.3.3.3" resolves to 2.2.2.2, and
\* X-Forwarded-For 2.2.2.2 with X-Real-IP 4.4.4.4 resolves to 4.4.4.4.
C3_Precedence ==
    \A r \in Slots :
        Decided(r) =>
            /\ req[r].client_ip =
                IF req[r].xri \notin {None, Some("")}
                THEN Some(Strip(req[r].xri[1]))
                ELSE IF req[r].xff \notin {None, Some("")}
                THEN Some(FirstEntry(req[r].xff[1]))
                ELSE req[r].client
            /\ ( /\ req[r].client = Some("1.1.1.1")
                 /\ req[r].xff = Some("2.2.2.2, 3.3.3.3")
                 /\ req[r].xri = None ) => req[r].client_ip = Some("2.2.2.2")
            /\ ( /\ req[r].xff = Some("2.2.2.2")
                 /\ req[r].xri = Some("4.4.4.4") ) => req[r].client_ip = Some("4.4.4.4")

\* C3 witness: an X-Real-IP header with an empty value is passed over for the
\* first entry of X-Forwarded-For.
C3_Witness ==
    \E r \in Slots :
        /\ Decided(r)
        /\ req[r].xri = Some("")
        /\ req[r].xff = Some("2.2.2.2, 3.3.3.3")
        /\ req[r].client_ip = Some("2.2.2.2")

\* C5 as stated: a /health request is answered 200 {"status": "ok"} for every
\* allow list and every client address.
C5_Original ==
    \A r \in Slots :
        (req[r].path = HealthPath /\ req[r].pc = "done") =>
            req[r].response = [status |-> 200, body |-> [status |-> "ok"]]

\* C5 amended: a /health request is answered 200 {"status": "ok"} whenever
\* the middleware passes it on, which it always does under an unconfigured
\* allow list; under a configured allow list a /health request whose resolved
\* address is absent, empty or not allowed is answered 403 like any other.
C5_Health ==
    \A r \in Slots :
        (req[r].path = HealthPath /\ req[r].pc = "done") =>
            /\ req[r].call_next =>
                 req[r].response = [status |-> 200, body |-> [status |-> "ok"]]
            /\ ~req[r].call_next =>
                 /\ req[r].response = Forbidden
                 /\ Configured
                 /\ \/ req[r].client_ip \in {None, Some("")}
                    \/ ~is_ip_allowed(req[r].client_ip[1], allowed_ips).value
            /\ ~Configured => req[r].call_next

\* C5 witness: under a configured allow list with no pool, a /health request
\* from an allowed address has been answered 200.
C5_Witness ==
    /\ Configured
    /\ connection_pool = "None"
    /\ \E r \in Slots :
        /\ req[r].path = HealthPath
        /\ req[r].pc = "done"
        /\ req[r].client_ip = Some("10.1.2.3")
        /\ req[r].response.status = 200

\* C10 as stated: whenever the request has a transport address or either
\* header, the resolved address is present and non-empty.
C10_Original ==
    \A r \in Slots :
        ( /\ Decided(r)
          /\ (req[r].client # None \/ req[r].xff # None \/ req[r].xri # None) ) =>
            /\ req[r].client_ip # None
            /\ req[r].client_ip # Some("")

\* C10 amended: the resolved address is absent only if the request has no
\* transport address and neither header has a non-empty value.  It is the
\* empty string only if the header that decides it (X-Real-IP when non-empty,
\* else X-Forwarded-For when non-empty) is blank after trimming, resp. has a
\* blank first entry, or the transport address itself is empty; a configured
\* allow list then answers 403, whatever the transport address.  A header
\* that is absent or empty leaves the transport address in place.
C10_Absent ==
    \A r \in Slots :
        Decided(r) =>
            LET xriSet == req[r].xri \notin {None, Some("")}
                xffSet == req[r].xff \notin {None, Some("")}
            IN  /\ req[r].client_ip = None =>
                    req[r].client = None /\ ~xriSet /\ ~xffSet
                /\ req[r].client_ip = Some("") =>
                    \/ xriSet /\ Strip(req[r].xri[1]) = ""
                    \/ ~xriSet /\ xffSet /\ FirstEntry(req[r].xff[1]) = ""
                    \/ ~xriSet /\ ~xffSet /\ req[r].client = Some("")
                /\ (Configured /\ req[r].client_ip \in {None, Some("")}) =>
                    req[r].response = Forbidden
                /\ (~xriSet /\ ~xffSet) => req[r].client_ip = req[r].client

\* C10 witness: a request from an allowed transport address whose
\* X-Forwarded-For is blank has been answered 403.
C10_Witness ==
    /\ ALLOWED_IPS = Some("10.0.0.0/8")
    /\ \E r \in Slots :
        /\ req[r].client = Some("10.1.2.3")
        /\ req[r].xff = Some(" ")
        /\ req[r].xri = None
        /\ req[r].client_ip = Some("")
        /\ req[r].response = Forbidden

\* A rule written as a CIDR block that does not parse as a network.
Malformed(rule) == Contains(rule, "/") /\ ~ip_network(rule).ok

WithoutMalformed(rules) == SelectSeq(rules, LAMBDA rule : ~Malformed(rule))

\* The candidate parses as an address inside the network the rule parses as.
InsideRule(ip, rule) ==
    /\ Contains(rule, "/")
    /\ ip_network(rule).ok
    /\ ip_address(ip).ok
    /\ InNetwork(ip_address(ip), ip_network(rule))

\* C4 as stated: _is_ip_allowed returns a boolean without raising; it is true
\* exactly when the candidate is string-equal to some rule or parses as an
\* address inside some rule that has a '/' and parses as a network; and the
\* result equals the result for the list with the malformed rules removed.
C4_Original ==
    matcher.called =>
        /\ ~matcher.result.raised
        /\ matcher.result.value =
            \E i \in 1..Len(matcher.rules) :
                \/ matcher.ip = matcher.rules[i]
                \/ InsideRule(matcher.ip, matcher.rules[i])
        /\ matcher.result = is_ip_allowed(matcher.ip, WithoutMalformed(matcher.rules))

\* C4 amended: as stated, except that the result equals the result for the
\* list with the malformed rules removed only when the candidate is not
\* string-equal to a malformed rule: a candidate that is (the candidate
\* "not-an-ip/33" against the rule "not-an-ip/33") is allowed by that rule.
C4_Matcher ==
    matcher.called =>
        /\ ~matcher.result.raised
        /\ matcher.result.value =
            \E i \in 1..Len(matcher.rules) :
                \/ matcher.ip = matcher.rules[i]
                \/ InsideRule(matcher.ip, matcher.rules[i])
        /\ \/ \E i \in 1..Len(matcher.rules) :
                Malformed(matcher.rules[i]) /\ matcher.ip = matcher.rules[i]
           \/ matcher.result =
                is_ip_allowed(matcher.ip, WithoutMalformed(matcher.rules))
        /\ ( /\ Malformed(matcher.ip)
             /\ \E i \in 1..Len(matcher.rules) : matcher.ip = matcher.rules[i] ) =>
                /\ matcher.result.value
                /\ ~is_ip_allowed(matcher.ip, WithoutMalformed(matcher.rules)).value

\* C4 witness: a malformed rule stands before an IPv6 rule and the CIDR rule
\* that holds the candidate, and the call returned True.
C4_Witness ==
    /\ matcher.called
    /\ matcher.ip = "192.168.1.65"
    /\ matcher.rules = <<"not-an-ip/33", "2001:db8::/32", "192.168.1.77/27">>
    /\ matcher.result = [raised |-> FALSE, value |-> TRUE]

\* C6: every connection get_referral_balances obtains from getconn() is
\* handed back by putconn() exactly once before the response is produced,
\* whichever step fails; when getconn() itself (or get_pool_sync()) fails
\* nothing is handed back; so the connections checked out are those of the
\* handler that is running, and none once the requests are completed.
C6_Release ==
    /\ \A r \in Slots :
        /\ req[r].gets <= 1
        /\ req[r].puts <= req[r].gets
        /\ req[r].pc = "done" => req[r].puts = req[r].gets
        /\ req[r].failure \in {"get_pool", "exhausted", "getconn"} =>
             req[r].gets = 0 /\ req[r].puts = 0
        /\ ( /\ req[r].pc = "done" /\ req[r].call_next /\ req[r].path = ApiPath
             /\ req[r].failure \in {"", "cursor", "query1", "query2", "build"} ) =>
             req[r].gets = 1 /\ req[r].puts = 1
    /\ used = Cardinality({r \in Slots : req[r].gets > req[r].puts})
    /\ (\A r \in Slots : req[r].pc \in {"idle", "passed", "done"}) => used = 0

\* C6 witness: a request whose second query failed has been answered, its
\* connection handed back once, while another request waits for the handler.
C6_Witness ==
    \E r \in Slots, w \in Slots :
        /\ req[r].pc = "done"
        /\ req[r].failure = "query2"
        /\ req[r].gets = 1 /\ req[r].puts = 1
        /\ req[w].pc = "passed" /\ req[w].path = ApiPath
        /\ used = 0

\* The handler of slot r can take a connection and go on.
AcquireOk(r) == HandlerAcquire(r) /\ req'[r].pc = "has_conn"

\* C8: a failure obtaining the pool, acquiring a connection or running the
\* queries is answered 500 with the failure's message as "error"; no
\* exception leaves the handler; and after a failed request the service is as
\* before: serving, no connection out, and a waiting request can still
\* acquire a connection.
C8_Contained ==
    /\ \A r \in Slots :
        /\ ~req[r].escaped
        /\ (req[r].pc = "done" /\ req[r].failure # "") =>
             req[r].response =
                [status |-> 500, body |-> [error |-> FailureMessage(req[r].failure)]]
        /\ (req[r].pc = "done" /\ req[r].call_next /\ req[r].path = ApiPath
               /\ req[r].failure = "") =>
             req[r].response.status = 200
    /\ ( /\ \E r \in Slots : req[r].pc = "done" /\ req[r].failure # ""
         /\ LoopFree ) =>
            /\ phase = "serving"
            /\ used = 0
            /\ connection_pool \in {"None", "open"}
            /\ \A w \in Slots :
                (req[w].pc = "passed" /\ req[w].path = ApiPath) => ENABLED AcquireOk(w)

\* C8 witness: one request was answered 500 because getconn() failed, and a
\* later request holds a connection.
C8_Witness ==
    \E r \in Slots, w \in Slots :
        /\ req[r].pc = "done"
        /\ req[r].failure = "getconn"
        /\ req[r].response.status = 500
        /\ req[w].pc = "has_conn"

\* C9: the allow list is the configured rules followed by the three localhost
\* entries, once, in every state: no dispatch and no match adds, removes or
\* reorders an entry, so all requests are decided against the same list.
C9_Immutable ==
    allowed_ips = ParseAllowedIps(ALLOWED_IPS) \o <<"127.0.0.1", "::1", "localhost">>

\* C9 witness: under a configured allow list two requests are in flight, one
\* passed on and one answered 403.
C9_Witness ==
    /\ Len(allowed_ips) = 6
    /\ \E r \in Slots, w \in Slots :
        /\ req[r].pc = "passed"
        /\ req[w].pc = "done"
        /\ req[w].response.status = 403

====
